---- MODULE Spec2Model ----
(***************************************************************************)
(* Model of the Control Layer of the guitar firmware:                      *)
(*   RemoteControl.cpp  - serial packet dispatcher (parseSerialData) and   *)
(*                        sync-relative scheduler (update)                 *)
(*   ServoControl.cpp   - actuator driver entry point (setServoAngle)      *)
(*                                                                         *)
(* handle() is modelled at the granularity of one loop iteration of        *)
(* parseSerialData() and of update(): the UART receive interrupt and the   *)
(* millisecond timer run concurrently with the loops, so bytes may arrive  *)
(* and the clock may advance between two iterations (Serial.available()    *)
(* is re-read on every iteration, millis() once per update()).  The        *)
(* sketch's loop() calls handle() again as soon as it has returned.        *)
(*                                                                         *)
(* A packet reaches the receive buffer whole or in two pieces, cut behind  *)
(* its marker or before its last byte: the two cuts on either side of      *)
(* which the dispatcher's test avail >= size changes.                      *)
(***************************************************************************)
EXTENDS Integers, Sequences, FiniteSets, TLC

\* ------------------------------------------------------------------ bounds
MaxPackets  == 3      \* packets the host sends in one behaviour
MaxTime     == 3      \* the clock is observed at 0..MaxTime
MaxCapacity == 2      \* largest MAX_COMMANDS configuration explored

\* ------------------------------------------------- constants of the source
SYNC_MARKER          == 170   \* 0xAA
SYNC_TYPE            == 1
SYNC_PACKET_SIZE     == 6
COMMAND_MARKER       == 187   \* 0xBB
COMMAND_PACKET_SIZE  == 7
GET_TIME_MARKER      == 204   \* 0xCC
GET_TIME_PACKET_SIZE == 1
END_MARKER           == 221   \* 0xDD
END_PACKET_SIZE      == 5
STOP_MARKER          == 238   \* 0xEE
RESET_MARKER         == 239   \* 0xEF
MAX_RESET_SERVOS     == 18
MAX_COMMANDS         == 1
END_SENTINEL         == 255   \* targetIndex of the end-of-song command

RESET_PACKET_SIZE == 1 + MAX_RESET_SERVOS * 2

\* uint32_t / unsigned long values are kept as two 16-bit halves, so that
\* every 32-bit value and the carry out of bit 31 are represented exactly.
U32(h, l) == [hi |-> h, lo |-> l]

Zero32 == U32(0, 0)

\* a + b on uint32_t: the sum modulo 2^32
Add32(a, b) ==
    U32((a.hi + b.hi + ((a.lo + b.lo) \div 65536)) % 65536,
        (a.lo + b.lo) % 65536)

\* a >= b on uint32_t
Geq32(a, b) == a.hi > b.hi \/ (a.hi = b.hi /\ a.lo >= b.lo)

\* (int16_t) of a 16-bit pattern
ToInt16(x) == IF (x % 65536) >= 32768 THEN (x % 65536) - 65536 ELSE x % 65536

\* ------------------------------------------------------------ wire decoding
\* mutant: the delay read most significant byte first, like the timestamp
DecodeDelay_BigEndian(d0, d1, d2, d3) ==
    U32(d0 * 256 + d1, d2 * 256 + d3)

\* d0 | (d1 << 8) | (d2 << 16) | (d3 << 24) on uint32_t operands
DecodeDelay(d0, d1, d2, d3) ==
    U32(d3 * 256 + d2, d1 * 256 + d0)

\* mutant: the timestamp read little-endian, like the delays
DecodeSyncTime_LittleEndian(b0, b1, b2, b3) ==
    U32(b3 * 256 + b2, b1 * 256 + b0)

\* t |= read()<<24; t |= read()<<16; t |= read()<<8; t |= read()
DecodeSyncTime(b0, b1, b2, b3) ==
    U32(b0 * 256 + b1, b2 * 256 + b3)

\* mutant: the int16_t cast is missing
DecodeAngle_Unsigned(hi, lo) == hi * 256 + lo

\* (int16_t)((hi << 8) | lo)
DecodeAngle(hi, lo) == ToInt16(hi * 256 + lo)

\* --------------------------------------------------- packets the host sends
ResetPayloadByte(k) ==
    LET idx == (k - 1) \div 2
        isHi == (k % 2) = 1
    IN  IF idx % 2 = 0
        THEN (IF isHi THEN 0 ELSE 90 + idx)          \* angle 90 + idx
        ELSE (IF isHi THEN 255 ELSE 256 - idx)       \* angle -idx

ResetPacket ==
    [k \in 1..RESET_PACKET_SIZE |->
        IF k = 1 THEN RESET_MARKER ELSE ResetPayloadByte(k - 1)]

SyncGood == <<SYNC_MARKER, 1, 0, 0, 0, 1>>           \* baseline 1
SyncBad  == <<SYNC_MARKER, 2, 238, 0, 0, 1>>         \* wrong type byte
PickA    == <<COMMAND_MARKER, 3, 90, 1, 0, 0, 0>>    \* delay 1
PickB    == <<COMMAND_MARKER, 5, 170, 255, 255, 255, 255>> \* delay 2^32-1
PickS    == <<COMMAND_MARKER, 255, 45, 0, 0, 0, 0>>  \* target = sentinel value
EndPkt   == <<END_MARKER, 1, 0, 0, 0>>               \* delay 1
StopPkt  == <<STOP_MARKER>>
GetTime  == <<GET_TIME_MARKER>>
Garbage  == <<66>>                                   \* no known marker

Packets ==
    {SyncGood, SyncBad, PickA, PickB, PickS, EndPkt, StopPkt, GetTime,
     ResetPacket, Garbage}

\* ------------------------------------------------------------------- state
VARIABLES
    capacity,       \* MAX_COMMANDS of the build
    commandBuffer,  \* RemoteControl::commandBuffer[0..capacity-1]
    commandCount,   \* RemoteControl::commandCount
    syncReceived,   \* RemoteControl::syncReceived
    syncStartTime,  \* RemoteControl::syncStartTime
    pc,             \* "parse" | "update" | "scan" | "halted"
    i,              \* update(): scan index
    now,            \* update(): local copy of millis()
    millis,         \* the millisecond clock
    rx,             \* Serial receive buffer (bytes available)
    wire,           \* pieces of the packet in flight, not yet received
    sentCount,      \* number of packets the host has sent
    moves,          \* setServoAngle calls issued by the latest step
    out,            \* status lines printed by the latest step (the verbose
                    \* diagnostics of debug mode are not modelled)
    nextId,         \* history: number of commands buffered so far
    executed,       \* history: command id -> number of driver calls
    discarded,      \* history: ids of the commands dropped by a SYNC
                    \* (.sync) and by a STOP (.stop)
    passBuf,        \* history: buffer contents at the start of update()
    passSync,       \* history: syncReceived at the start of update()
    stalled         \* history: "yes" while the front packet has been seen
                    \* incomplete, "resumed" once it was consumed after that

vars == <<capacity, commandBuffer, commandCount, syncReceived, syncStartTime,
          pc, i, now, millis, rx, wire, sentCount, moves, out, nextId,
          executed, discarded, passBuf, passSync, stalled>>

\* one Command; id and pkt (the bytes it was decoded from) are history
NoCmd ==
    [targetIndex |-> 0, angle |-> 0, relativeDelay |-> Zero32, id |-> 0,
     pkt |-> <<>>]

Line(t, v) == [text |-> t, value |-> v]

Call(idx, a, cid) == [servoIndex |-> idx, angle |-> a, id |-> cid]

Drop(s, n) == SubSeq(s, n + 1, Len(s))

\* the buffered commands, commandBuffer[0..commandCount-1], as a sequence
Live == [k \in 1..commandCount |-> commandBuffer[k - 1]]

LiveIds == {commandBuffer[k].id : k \in 0..(commandCount - 1)}

\* history: the packet now consumed had been seen incomplete before
AfterConsume == IF stalled = "yes" THEN "resumed" ELSE "no"

\* ------------------------------------------------------------ construction
Init ==
    /\ capacity \in MAX_COMMANDS..MaxCapacity
    /\ commandBuffer = [k \in 0..(capacity - 1) |-> NoCmd]
    /\ commandCount = 0
    /\ syncReceived = FALSE
    /\ syncStartTime = Zero32
    /\ pc = "parse"
    /\ i = 0
    /\ now = Zero32
    /\ millis = Zero32
    /\ rx = <<>>
    /\ wire = <<>>
    /\ sentCount = 0
    /\ moves = <<>>
    /\ out = <<>>
    /\ nextId = 0
    /\ executed = [c \in 1..(MaxPackets + 1) |-> 0]
    /\ discarded = [sync |-> {}, stop |-> {}]
    /\ passBuf = <<>>
    /\ passSync = FALSE
    /\ stalled = "no"

\* -------------------------------------------------------------- environment
\* where a packet may be cut: behind the marker, before the last byte, or
\* not at all
Cuts(p) == {k \in {1, Len(p) - 1, Len(p)} : k >= 1}

\* the host puts one packet on the line; it will arrive cut after k bytes
Send(p, k) ==
    /\ wire = <<>>
    /\ sentCount < MaxPackets
    /\ wire' = IF k = Len(p)
               THEN <<p>>
               ELSE <<SubSeq(p, 1, k), SubSeq(p, k + 1, Len(p))>>
    /\ sentCount' = sentCount + 1
    /\ UNCHANGED <<capacity, commandBuffer, commandCount, syncReceived,
                   syncStartTime, pc, i, now, millis, rx, moves, out, nextId,
                   executed, discarded, passBuf, passSync, stalled>>

\* the UART has received the next piece
Arrive ==
    /\ wire # <<>>
    /\ rx' = rx \o Head(wire)
    /\ wire' = Tail(wire)
    /\ UNCHANGED <<capacity, commandBuffer, commandCount, syncReceived,
                   syncStartTime, pc, i, now, millis, sentCount, moves, out,
                   nextId, executed, discarded, passBuf, passSync, stalled>>

\* one millisecond passes
Tick ==
    /\ millis.hi = 0
    /\ millis.lo < MaxTime
    /\ millis' = Add32(millis, U32(0, 1))
    /\ UNCHANGED <<capacity, commandBuffer, commandCount, syncReceived,
                   syncStartTime, pc, i, now, rx, wire, sentCount, moves, out,
                   nextId, executed, discarded, passBuf, passSync, stalled>>

\* ------------------------------------------------ ServoControl / Serial API
\* setServoAngle(servoIndex, angle): one invocation of the actuator driver
SetServoAngle(servoIndex, angle, cid) == <<Call(servoIndex, angle, cid)>>

\* the driver calls of a RESET packet whose bytes are p (p[1] is the marker)
ResetCalls(p) ==
    [idx \in 1..MAX_RESET_SERVOS |->
        Call(idx - 1, DecodeAngle(p[2 * idx], p[2 * idx + 1]), 0)]

\* fixed total size of the packet a marker announces (0: no known marker)
PacketSize(marker) ==
    CASE marker = STOP_MARKER     -> 1
      [] marker = RESET_MARKER    -> RESET_PACKET_SIZE
      [] marker = COMMAND_MARKER  -> COMMAND_PACKET_SIZE
      [] marker = END_MARKER      -> END_PACKET_SIZE
      [] marker = GET_TIME_MARKER -> GET_TIME_PACKET_SIZE
      [] marker = SYNC_MARKER     -> SYNC_PACKET_SIZE
      [] OTHER                    -> 0

\* mutant: a packet is only taken once a further byte has arrived behind it
Framable_NeedsMore(marker, avail) ==
    /\ PacketSize(marker) > 0
    /\ avail > PacketSize(marker)

\* the branch conditions of the dispatcher loop: marker == M && avail >= size
Framable(marker, avail) ==
    /\ PacketSize(marker) > 0
    /\ avail >= PacketSize(marker)

\* mutant: the capacity test is missing
HasRoom_Always(count, cap) == TRUE

\* commandCount < MAX_COMMANDS
HasRoom(count, cap) == count < cap

\* commandBuffer[commandCount] = cmd
Store(buf, count, cmd) == [buf EXCEPT ![count] = cmd]

\* mutant: the buffer is not emptied
Cleared_Keeps(count) == count

\* commandCount = 0 in the STOP and SYNC branches
Cleared(count) == 0

\* ------------------------------------------------------------- handle()
\* while (Serial.available() > 0) is false: the loop is left
ParseExit ==
    /\ pc = "parse"
    /\ Len(rx) = 0
    /\ pc' = "update"
    /\ moves' = <<>>
    /\ out' = <<>>
    /\ UNCHANGED <<capacity, commandBuffer, commandCount, syncReceived,
                   syncStartTime, i, now, millis, rx, wire, sentCount, nextId,
                   executed, discarded, passBuf, passSync, stalled>>

\* STOP packet
ParseStop ==
    /\ pc = "parse"
    /\ Len(rx) > 0
    /\ Head(rx) = STOP_MARKER
    /\ Framable(Head(rx), Len(rx))
    /\ rx' = Drop(rx, 1)
    /\ commandCount' = Cleared(commandCount)
    /\ syncReceived' = FALSE
    /\ out' = <<Line("STOPPED", 0)>>
    /\ moves' = <<>>
    /\ discarded' = [discarded EXCEPT !.stop = @ \cup LiveIds]
    /\ stalled' = AfterConsume
    /\ UNCHANGED <<capacity, commandBuffer, syncStartTime, pc, i, now, millis,
                   wire, sentCount, nextId, executed, passBuf, passSync>>

\* RESET packet
ParseReset ==
    /\ pc = "parse"
    /\ Len(rx) > 0
    /\ Head(rx) = RESET_MARKER
    /\ Framable(Head(rx), Len(rx))
    /\ rx' = Drop(rx, RESET_PACKET_SIZE)
    /\ moves' = ResetCalls(rx)
    /\ out' = <<Line("RESET_DONE", 0)>>
    /\ stalled' = AfterConsume
    /\ UNCHANGED <<capacity, commandBuffer, commandCount, syncReceived,
                   syncStartTime, pc, i, now, millis, wire, sentCount, nextId,
                   executed, discarded, passBuf, passSync>>

\* the Command a PICK packet p decodes to; cid is its history id
PickCommand(p, cid) ==
    [targetIndex   |-> p[2],
     angle         |-> p[3],
     relativeDelay |-> DecodeDelay(p[4], p[5], p[6], p[7]),
     id            |-> cid,
     pkt           |-> SubSeq(p, 1, COMMAND_PACKET_SIZE)]

\* what a PICK prints when the buffer is full
PickFullLines == <<Line("ERROR: command buffer full", 0)>>

\* mutant: a PICK that finds the buffer full is dropped without reading
\* its payload
ParsePick_DropsMarkerOnly ==
    /\ pc = "parse"
    /\ Len(rx) > 0
    /\ Head(rx) = COMMAND_MARKER
    /\ Framable(Head(rx), Len(rx))
    /\ IF HasRoom(commandCount, capacity)
       THEN /\ rx' = Drop(rx, COMMAND_PACKET_SIZE)
            /\ commandBuffer' =
                 Store(commandBuffer, commandCount, PickCommand(rx, nextId + 1))
            /\ commandCount' = commandCount + 1
            /\ nextId' = nextId + 1
            /\ out' = <<>>
       ELSE /\ rx' = Drop(rx, 1)
            /\ out' = PickFullLines
            /\ UNCHANGED <<commandBuffer, commandCount, nextId>>
    /\ moves' = <<>>
    /\ stalled' = AfterConsume
    /\ UNCHANGED <<capacity, syncReceived, syncStartTime, pc, i, now, millis,
                   wire, sentCount, executed, discarded, passBuf, passSync>>

\* PICK command packet
ParsePick ==
    /\ pc = "parse"
    /\ Len(rx) > 0
    /\ Head(rx) = COMMAND_MARKER
    /\ Framable(Head(rx), Len(rx))
    /\ rx' = Drop(rx, COMMAND_PACKET_SIZE)
    /\ IF HasRoom(commandCount, capacity)
       THEN /\ commandBuffer' =
                 Store(commandBuffer, commandCount, PickCommand(rx, nextId + 1))
            /\ commandCount' = commandCount + 1
            /\ nextId' = nextId + 1
            /\ out' = <<>>
       ELSE /\ out' = PickFullLines
            /\ UNCHANGED <<commandBuffer, commandCount, nextId>>
    /\ moves' = <<>>
    /\ stalled' = AfterConsume
    /\ UNCHANGED <<capacity, syncReceived, syncStartTime, pc, i, now, millis,
                   wire, sentCount, executed, discarded, passBuf, passSync>>

\* the Command an END packet p decodes to
EndCommand(p, cid) ==
    [targetIndex   |-> END_SENTINEL,
     angle         |-> 0,
     relativeDelay |-> DecodeDelay(p[2], p[3], p[4], p[5]),
     id            |-> cid,
     pkt           |-> SubSeq(p, 1, END_PACKET_SIZE)]

\* what an END prints when the buffer is full: its if has no else branch
EndFullLines == <<>>

\* END-OF-SONG packet
ParseEnd ==
    /\ pc = "parse"
    /\ Len(rx) > 0
    /\ Head(rx) = END_MARKER
    /\ Framable(Head(rx), Len(rx))
    /\ rx' = Drop(rx, END_PACKET_SIZE)
    /\ IF HasRoom(commandCount, capacity)
       THEN /\ commandBuffer' =
                 Store(commandBuffer, commandCount, EndCommand(rx, nextId + 1))
            /\ commandCount' = commandCount + 1
            /\ nextId' = nextId + 1
            /\ out' = <<>>
       ELSE /\ out' = EndFullLines
            /\ UNCHANGED <<commandBuffer, commandCount, nextId>>
    /\ moves' = <<>>
    /\ stalled' = AfterConsume
    /\ UNCHANGED <<capacity, syncReceived, syncStartTime, pc, i, now, millis,
                   wire, sentCount, executed, discarded, passBuf, passSync>>

\* mutant: the reply carries the clock value of power-up
TimeReply_Stale(t) == <<Line("TIME:", Zero32)>>

\* Serial.print("TIME:"); Serial.println(millis());
TimeReply(t) == <<Line("TIME:", t)>>

\* GET_TIME packet
ParseGetTime ==
    /\ pc = "parse"
    /\ Len(rx) > 0
    /\ Head(rx) = GET_TIME_MARKER
    /\ Framable(Head(rx), Len(rx))
    /\ rx' = Drop(rx, GET_TIME_PACKET_SIZE)
    /\ out' = TimeReply(millis)
    /\ moves' = <<>>
    /\ stalled' = AfterConsume
    /\ UNCHANGED <<capacity, commandBuffer, commandCount, syncReceived,
                   syncStartTime, pc, i, now, millis, wire, sentCount, nextId,
                   executed, discarded, passBuf, passSync>>

\* if (type != SYNC_TYPE) is not taken
SyncTypeOk(type) == type = SYNC_TYPE

\* mutant: errorHandler() returns and parseSerialData() returns after it
AfterError_Returns == "update"

\* errorHandler() never returns: control stays in its while (true)
AfterError == "halted"

\* SYNC packet: a wrong type byte enters errorHandler() after two reads
ParseSync ==
    /\ pc = "parse"
    /\ Len(rx) > 0
    /\ Head(rx) = SYNC_MARKER
    /\ Framable(Head(rx), Len(rx))
    /\ IF SyncTypeOk(rx[2])
       THEN /\ rx' = Drop(rx, SYNC_PACKET_SIZE)
            /\ syncStartTime' = DecodeSyncTime(rx[3], rx[4], rx[5], rx[6])
            /\ syncReceived' = TRUE
            /\ commandCount' = Cleared(commandCount)
            /\ discarded' = [discarded EXCEPT !.sync = @ \cup LiveIds]
            /\ out' = <<>>
            /\ pc' = pc
       ELSE /\ rx' = Drop(rx, 2)
            /\ out' = <<Line("RemoteControl ERROR: ", 0)>>
            /\ pc' = AfterError
            /\ UNCHANGED <<syncStartTime, syncReceived, commandCount,
                           discarded>>
    /\ moves' = <<>>
    /\ stalled' = AfterConsume
    /\ UNCHANGED <<capacity, commandBuffer, i, now, millis, wire, sentCount,
                   nextId, executed, passBuf, passSync>>

\* mutant: the marker of an incomplete packet is read before its payload
\* has arrived
ParseBreak_EatsMarker ==
    /\ pc = "parse"
    /\ Len(rx) > 0
    /\ ~Framable(Head(rx), Len(rx))
    /\ IF PacketSize(Head(rx)) > 0
       THEN rx' = Tail(rx) /\ pc' = "parse"
       ELSE rx' = rx /\ pc' = "update"
    /\ moves' = <<>>
    /\ out' = <<>>
    /\ stalled' = "no"
    /\ UNCHANGED <<capacity, commandBuffer, commandCount, syncReceived,
                   syncStartTime, i, now, millis, wire, sentCount, nextId,
                   executed, discarded, passBuf, passSync>>

\* mutant: a byte that is no marker is thrown away to resynchronise
ParseBreak_SkipsGarbage ==
    /\ pc = "parse"
    /\ Len(rx) > 0
    /\ ~Framable(Head(rx), Len(rx))
    /\ IF PacketSize(Head(rx)) > 0
       THEN rx' = rx /\ pc' = "update" /\ stalled' = "yes"
       ELSE rx' = Tail(rx) /\ pc' = "parse" /\ stalled' = "no"
    /\ moves' = <<>>
    /\ out' = <<>>
    /\ UNCHANGED <<capacity, commandBuffer, commandCount, syncReceived,
                   syncStartTime, i, now, millis, wire, sentCount, nextId,
                   executed, discarded, passBuf, passSync>>

\* mutant: on a byte that is no marker the receive buffer is flushed
ParseBreak_FlushesUnknown ==
    /\ pc = "parse"
    /\ Len(rx) > 0
    /\ ~Framable(Head(rx), Len(rx))
    /\ pc' = "update"
    /\ rx' = IF PacketSize(Head(rx)) > 0 THEN rx ELSE <<>>
    /\ moves' = <<>>
    /\ out' = <<>>
    /\ stalled' = IF PacketSize(Head(rx)) > 0 THEN "yes" ELSE "no"
    /\ UNCHANGED <<capacity, commandBuffer, commandCount, syncReceived,
                   syncStartTime, i, now, millis, wire, sentCount, nextId,
                   executed, discarded, passBuf, passSync>>

\* else break: incomplete or unrecognised packet at buffer front
ParseBreak ==
    /\ pc = "parse"
    /\ Len(rx) > 0
    /\ ~Framable(Head(rx), Len(rx))
    /\ pc' = "update"
    /\ moves' = <<>>
    /\ out' = <<>>
    /\ stalled' = IF PacketSize(Head(rx)) > 0 THEN "yes" ELSE "no"
    /\ UNCHANGED <<capacity, commandBuffer, commandCount, syncReceived,
                   syncStartTime, i, now, millis, rx, wire, sentCount, nextId,
                   executed, discarded, passBuf, passSync>>

\* errorHandler(): while (true) { delay(1000); print the message again }
ErrorHandlerLoop ==
    /\ pc = "halted"
    /\ pc' = AfterError
    /\ out' = <<Line("RemoteControl ERROR: ", 0)>>
    /\ moves' = <<>>
    /\ UNCHANGED <<capacity, commandBuffer, commandCount, syncReceived,
                   syncStartTime, i, now, millis, rx, wire, sentCount, nextId,
                   executed, discarded, passBuf, passSync, stalled>>

\* ------------------------------------------------------------- update()
\* mutant: update() scans the buffer whether or not a SYNC was received
SyncGate_Open(sync) == TRUE

\* if (!syncReceived) return;
SyncGate(sync) == sync

\* unsigned long execTime = syncStartTime + commandBuffer[i].relativeDelay
ExecTime(base, delay) == Add32(base, delay)

\* mutant: the comparison is strict
IsDue_Strict(t, execTime) == Geq32(t, execTime) /\ t # execTime

\* if (now >= execTime)
IsDue(t, execTime) == Geq32(t, execTime)

\* commandBuffer[i].targetIndex == 255
IsEndMarker(cmd) == cmd.targetIndex = END_SENTINEL

\* mutant: no shift, so that decrementing the count drops the last entry
RemoveAt_DropsLast(buf, idx, count) == buf

\* for (j = i; j < commandCount - 1; j++) commandBuffer[j] = commandBuffer[j+1]
RemoveAt(buf, idx, count) ==
    [k \in DOMAIN buf |->
        IF k >= idx /\ k < count - 1 THEN buf[k + 1] ELSE buf[k]]

\* mutant: the count is not decremented after the shift
CountAfterRemoval_Forgotten(count) == count

\* --commandCount
CountAfterRemoval(count) == count - 1

\* while (i < commandCount)
ScanGoesOn(idx, count) == idx < count

\* update() is entered: the sync check (handle() returns and is called
\* again when it fails), then now = millis(), i = 0
UpdateBegin ==
    /\ pc = "update"
    /\ IF SyncGate(syncReceived)
       THEN /\ pc' = "scan"
            /\ now' = millis
            /\ i' = 0
            /\ passBuf' = Live
            /\ passSync' = syncReceived
       ELSE /\ pc' = "parse"
            /\ UNCHANGED <<now, i, passBuf, passSync>>
    /\ moves' = <<>>
    /\ out' = <<>>
    /\ UNCHANGED <<capacity, commandBuffer, commandCount, syncReceived,
                   syncStartTime, millis, rx, wire, sentCount, nextId,
                   executed, discarded, stalled>>

\* a due entry: DONE or the servo move, then the entry is removed
ScanFire ==
    /\ pc = "scan"
    /\ ScanGoesOn(i, commandCount)
    /\ IsDue(now, ExecTime(syncStartTime, commandBuffer[i].relativeDelay))
    /\ IF IsEndMarker(commandBuffer[i])
       THEN /\ out' = <<Line("DONE", 0)>>
            /\ syncReceived' = FALSE
            /\ moves' = <<>>
            /\ UNCHANGED executed
       ELSE /\ out' = <<>>
            /\ moves' = SetServoAngle(commandBuffer[i].targetIndex,
                                      commandBuffer[i].angle,
                                      commandBuffer[i].id)
            /\ executed' = [executed EXCEPT ![commandBuffer[i].id] = @ + 1]
            /\ UNCHANGED syncReceived
    /\ commandBuffer' = RemoveAt(commandBuffer, i, commandCount)
    /\ commandCount' = CountAfterRemoval(commandCount)
    /\ UNCHANGED <<capacity, syncStartTime, pc, i, now, millis, rx, wire,
                   sentCount, nextId, discarded, passBuf, passSync, stalled>>

\* mutant: the scan index is not advanced past an entry that is not due
ScanSkip_Stays ==
    /\ pc = "scan"
    /\ ScanGoesOn(i, commandCount)
    /\ ~IsDue(now, ExecTime(syncStartTime, commandBuffer[i].relativeDelay))
    /\ i' = i
    /\ moves' = <<>>
    /\ out' = <<>>
    /\ UNCHANGED <<capacity, commandBuffer, commandCount, syncReceived,
                   syncStartTime, pc, now, millis, rx, wire, sentCount, nextId,
                   executed, discarded, passBuf, passSync, stalled>>

\* an entry that is not due yet: ++i
ScanSkip ==
    /\ pc = "scan"
    /\ ScanGoesOn(i, commandCount)
    /\ ~IsDue(now, ExecTime(syncStartTime, commandBuffer[i].relativeDelay))
    /\ i' = i + 1
    /\ moves' = <<>>
    /\ out' = <<>>
    /\ UNCHANGED <<capacity, commandBuffer, commandCount, syncReceived,
                   syncStartTime, pc, now, millis, rx, wire, sentCount, nextId,
                   executed, discarded, passBuf, passSync, stalled>>

\* the loop condition fails: update() and handle() return, and loop()
\* calls handle() again
ScanExit ==
    /\ pc = "scan"
    /\ ~ScanGoesOn(i, commandCount)
    /\ pc' = "parse"
    /\ i' = 0
    /\ now' = Zero32
    /\ passBuf' = <<>>
    /\ passSync' = FALSE
    /\ moves' = <<>>
    /\ out' = <<>>
    /\ UNCHANGED <<capacity, commandBuffer, commandCount, syncReceived,
                   syncStartTime, millis, rx, wire, sentCount, nextId,
                   executed, discarded, stalled>>

\* ---------------------------------------------------------- specification
Next ==
    \/ \E p \in Packets : \E k \in Cuts(p) : Send(p, k)
    \/ Arrive
    \/ Tick
    \/ ParseExit
    \/ ParseStop
    \/ ParseReset
    \/ ParsePick
    \/ ParseEnd
    \/ ParseGetTime
    \/ ParseSync
    \/ ParseBreak
    \/ ErrorHandlerLoop
    \/ UpdateBegin
    \/ ScanFire
    \/ ScanSkip
    \/ ScanExit

Spec == Init /\ [][Next]_vars

\* one loop iteration of handle(): the processor keeps executing the code
\* of loop(), so an iteration that can be taken is eventually taken
Iteration ==
    \/ ParseExit
    \/ ParseStop
    \/ ParseReset
    \/ ParsePick
    \/ ParseEnd
    \/ ParseGetTime
    \/ ParseSync
    \/ ParseBreak
    \/ UpdateBegin
    \/ ScanFire
    \/ ScanSkip
    \/ ScanExit

Running == Init /\ [][Next]_vars /\ WF_vars(Iteration)

TypeOK ==
    /\ capacity \in MAX_COMMANDS..MaxCapacity
    /\ commandCount \in 0..capacity
    /\ DOMAIN commandBuffer = 0..(capacity - 1)
    /\ syncReceived \in BOOLEAN
    /\ syncStartTime.hi \in 0..65535 /\ syncStartTime.lo \in 0..65535
    /\ pc \in {"parse", "update", "scan", "halted"}
    /\ i \in 0..capacity
    /\ now.hi = 0 /\ now.lo \in 0..MaxTime
    /\ millis.hi = 0 /\ millis.lo \in 0..MaxTime
    /\ sentCount \in 0..MaxPackets
    /\ nextId \in 0..MaxPackets

\* ------------------------------------------------------------ properties
Range(s) == {s[k] : k \in 1..Len(s)}

\* t >= base + delay, the sum taken over the naturals (no wrap at 2^32)
TrueReached(t, base, delay) ==
    LET lo == base.lo + delay.lo
        hi == base.hi + delay.hi + (lo \div 65536)
    IN  /\ hi < 65536
        /\ \/ t.hi > hi
           \/ t.hi = hi /\ t.lo >= lo % 65536

\* a step of the environment: bytes arrive, time passes, the host sends
EnvStep ==
    /\ UNCHANGED <<pc, commandBuffer, commandCount, syncReceived,
                   syncStartTime, i, now, moves, out>>
    /\ Len(rx') >= Len(rx)

\* the scheduler pass returns
PassEnds == pc = "scan" /\ pc' = "parse"

\* C1: whenever the scheduler invokes the driver for a buffered PICK,
\* scheduling was active when the pass started, the pass's time has reached
\* baseline + relativeDelay (the sum taken over the naturals), and the call
\* carries the target and angle bytes of that PICK packet.
C1_PickNeverEarly ==
    (pc = "scan" /\ moves # <<>>) =>
        \A k \in 1..Len(moves) :
            \E c \in Range(passBuf) :
                /\ c.id = moves[k].id
                /\ passSync
                /\ TrueReached(now, syncStartTime, c.relativeDelay)
                /\ c.pkt[1] = COMMAND_MARKER
                /\ moves[k].servoIndex = c.pkt[2]
                /\ moves[k].angle = c.pkt[3]

\* the commands of the pass that C2 speaks of: PICK packets whose due time
\* baseline + relativeDelay (over the naturals) the pass's time has reached
DuePicks ==
    {c \in Range(passBuf) :
        /\ c.pkt[1] = COMMAND_MARKER
        /\ passSync
        /\ TrueReached(now, syncStartTime, c.relativeDelay)}

\* C2 as stated: every buffered PICK packet is executed exactly once, in the
\* first scheduler pass that starts with scheduling active and the command
\* due: at the end of that pass the driver has been called once for it and
\* it has left the buffer; no command is ever executed twice, and a command
\* still buffered has not been executed.
C2_PickExactlyOnce ==
    [][ /\ \A id \in DOMAIN executed : executed'[id] <= 1
        /\ \A id \in LiveIds' : executed'[id] = 0
        /\ PassEnds =>
              \A c \in DuePicks :
                  executed'[c.id] = 1 /\ c.id \notin LiveIds' ]_vars

\* C2 amended: the same for every PICK packet whose target byte is not 255,
\* the value the scheduler reads as the end-of-song sentinel.
C2_RealPickExactlyOnce ==
    [][ /\ \A id \in DOMAIN executed : executed'[id] <= 1
        /\ \A id \in LiveIds' : executed'[id] = 0
        /\ PassEnds =>
              \A c \in DuePicks :
                  c.pkt[2] # END_SENTINEL =>
                      executed'[c.id] = 1 /\ c.id \notin LiveIds' ]_vars

\* a pass has scanned the whole buffer and has executed and removed a PICK
\* that was due and whose due time did not wrap
C2_Witness ==
    /\ pc = "scan"
    /\ i >= commandCount
    /\ \E c \in DuePicks :
          /\ c.pkt[2] # END_SENTINEL
          /\ executed[c.id] = 1
          /\ c.id \notin LiveIds

\* C3: once a due END sentinel has been processed (scheduling is inactive
\* from then on), the scheduler invokes no actuator move, neither later in
\* the same pass nor in a later one.
C3_EndIsFullStop ==
    (pc = "scan" /\ ~syncReceived) => moves = <<>>

\* the four bytes of a SYNC timestamp, most significant first
RefBigEndian32(b0, b1, b2, b3) == [hi |-> b0 * 256 + b1, lo |-> b2 * 256 + b3]

\* the four bytes of a delay, least significant first
RefLittleEndian32(b0, b1, b2, b3) ==
    [hi |-> b3 * 256 + b2, lo |-> b1 * 256 + b0]

\* the signed 16-bit value of the pair (hi, lo)
RefSigned16(hi, lo) ==
    IF hi * 256 + lo >= 32768 THEN hi * 256 + lo - 65536 ELSE hi * 256 + lo

KnownMarkers == {170, 187, 204, 221, 238, 239}

\* total sizes of the wire protocol table
RefSize(m) ==
    CASE m = 170 -> 6
      [] m = 187 -> 7
      [] m = 204 -> 1
      [] m = 221 -> 5
      [] m = 238 -> 1
      [] m = 239 -> 37

SchedState == <<commandBuffer, commandCount, syncReceived, syncStartTime>>

\* C4: processing a SYNC packet with type byte 0x01 leaves the buffer empty,
\* scheduling active and the baseline equal to the big-endian timestamp,
\* whatever the state before; no command that was in the buffer when a SYNC
\* was processed is ever passed to the driver.
C4_SyncResets ==
    [][ /\ ( /\ pc = "parse"
             /\ Len(rx) >= 6
             /\ rx[1] = 170
             /\ rx[2] = 1
             /\ ~EnvStep )
           => /\ commandCount' = 0
              /\ syncReceived'
              /\ syncStartTime' = RefBigEndian32(rx[3], rx[4], rx[5], rx[6])
              /\ LiveIds \subseteq discarded'.sync
        /\ \A id \in discarded'.sync : executed'[id] = 0 ]_vars

\* a SYNC has just been processed on a non-empty buffer
C4_Witness ==
    /\ pc = "parse"
    /\ discarded.sync # {}
    /\ commandCount = 0
    /\ syncReceived
    /\ syncStartTime = [hi |-> 0, lo |-> 1]
    /\ Len(rx) = 0

\* C5: a complete PICK or END packet that finds the buffer full is consumed
\* and dropped, buffer, count and sync state stay as they are, the
\* dispatcher goes on, and "ERROR: command buffer full" is printed, for
\* PICK and for END alike.
C5_FullBufferReported ==
    [][ ( /\ pc = "parse"
          /\ commandCount = capacity
          /\ rx # <<>>
          /\ rx[1] \in {187, 221}
          /\ Len(rx) >= RefSize(rx[1])
          /\ ~EnvStep )
        => /\ rx' = Drop(rx, RefSize(rx[1]))
           /\ UNCHANGED SchedState
           /\ pc' = "parse"
           /\ out' = <<Line("ERROR: command buffer full", 0)>> ]_vars

\* C6: a SYNC packet with a wrong type byte halts the system for good: once
\* halted it stays halted, consumes no byte, changes neither buffer, sync
\* flag nor baseline, and invokes no actuator move.
C6_HaltAbsorbing ==
    [][ /\ ( /\ pc = "parse"
             /\ Len(rx) >= 6
             /\ rx[1] = 170
             /\ rx[2] # 1
             /\ ~EnvStep )
           => pc' = "halted"
        /\ pc = "halted"
           => /\ pc' = "halted"
              /\ Len(rx') >= Len(rx)
              /\ SubSeq(rx', 1, Len(rx)) = rx
              /\ UNCHANGED SchedState
              /\ UNCHANGED executed
              /\ moves' = <<>> ]_vars

\* halted with a STOP packet waiting at the front of the stream and a
\* buffered command whose due time has passed while scheduling is active
C6_Witness ==
    /\ pc = "halted"
    /\ rx # <<>>
    /\ rx[1] = 238
    /\ syncReceived
    /\ commandCount > 0
    /\ TrueReached(millis, syncStartTime, commandBuffer[0].relativeDelay)

\* C7: a STOP byte at the front of the stream is consumed by the dispatcher
\* and leaves the buffer empty and scheduling inactive, whatever the state
\* before; no command that was in the buffer at a STOP is ever executed.
C7_StopClears ==
    [][ /\ ( /\ pc = "parse"
             /\ rx # <<>>
             /\ rx[1] = 238
             /\ ~EnvStep )
           => /\ rx' = Tail(rx)
              /\ commandCount' = 0
              /\ ~syncReceived'
              /\ LiveIds \subseteq discarded'.stop
        /\ \A id \in discarded'.stop : executed'[id] = 0 ]_vars

\* a STOP has just been processed after a SYNC, on a non-empty buffer
C7_Witness ==
    /\ pc = "parse"
    /\ out = <<Line("STOPPED", 0)>>
    /\ discarded.stop # {}
    /\ syncStartTime = [hi |-> 0, lo |-> 1]
    /\ commandCount = 0
    /\ ~syncReceived

\* C8: a complete RESET packet makes the dispatcher call the driver exactly
\* 18 times in that step, for the indices 0..17 in increasing order, each
\* with the signed big-endian 16-bit angle of its pair; buffer, sync flag
\* and baseline are unchanged.
C8_ResetMovesAll ==
    [][ ( /\ pc = "parse"
          /\ Len(rx) >= 37
          /\ rx[1] = 239
          /\ ~EnvStep )
        => /\ Len(moves') = 18
           /\ \A k \in 1..18 :
                 /\ moves'[k].servoIndex = k - 1
                 /\ moves'[k].angle = RefSigned16(rx[2 * k], rx[2 * k + 1])
           /\ rx' = Drop(rx, 37)
           /\ UNCHANGED SchedState ]_vars

\* a RESET has just been processed while scheduling is active and a command
\* is buffered; index 1 received a negative angle
C8_Witness ==
    /\ pc = "parse"
    /\ Len(moves) = 18
    /\ moves[1].angle = 90
    /\ moves[2].angle = -1
    /\ syncReceived
    /\ commandCount > 0

\* what processing the complete packet at the front of rx must do
OnePieceEffect ==
    CASE rx[1] = 187 ->
            /\ rx' = Drop(rx, 7)
            /\ UNCHANGED <<syncReceived, syncStartTime>>
            /\ IF commandCount < capacity
               THEN /\ commandCount' = commandCount + 1
                    /\ \A k \in 0..(commandCount - 1) :
                          commandBuffer'[k] = commandBuffer[k]
                    /\ commandBuffer'[commandCount].targetIndex = rx[2]
                    /\ commandBuffer'[commandCount].angle = rx[3]
                    /\ commandBuffer'[commandCount].relativeDelay =
                          RefLittleEndian32(rx[4], rx[5], rx[6], rx[7])
               ELSE UNCHANGED <<commandBuffer, commandCount>>
      [] rx[1] = 221 ->
            /\ rx' = Drop(rx, 5)
            /\ UNCHANGED <<syncReceived, syncStartTime>>
            /\ IF commandCount < capacity
               THEN /\ commandCount' = commandCount + 1
                    /\ \A k \in 0..(commandCount - 1) :
                          commandBuffer'[k] = commandBuffer[k]
                    /\ commandBuffer'[commandCount].targetIndex = 255
                    /\ commandBuffer'[commandCount].relativeDelay =
                          RefLittleEndian32(rx[2], rx[3], rx[4], rx[5])
               ELSE UNCHANGED <<commandBuffer, commandCount>>
      [] rx[1] = 170 ->
            IF rx[2] = 1
            THEN /\ rx' = Drop(rx, 6)
                 /\ commandCount' = 0
                 /\ syncReceived'
                 /\ syncStartTime' =
                       RefBigEndian32(rx[3], rx[4], rx[5], rx[6])
            ELSE /\ pc' = "halted"
                 /\ UNCHANGED SchedState
      [] rx[1] = 239 ->
            /\ rx' = Drop(rx, 37)
            /\ UNCHANGED SchedState
            /\ Len(moves') = 18
      [] OTHER ->
            /\ rx' = Tail(rx)

\* C9: a known marker whose packet is not yet completely available ends
\* the dispatcher pass with no byte consumed and buffer, sync flag and
\* baseline unchanged; once the rest has arrived, a later pass processes
\* the packet as a packet that arrived in one piece is processed.
C9_PartialPacketWaits ==
    [][ /\ ( /\ pc = "parse"
             /\ rx # <<>>
             /\ rx[1] \in KnownMarkers
             /\ Len(rx) < RefSize(rx[1])
             /\ ~EnvStep )
           => /\ pc' = "update"
              /\ rx' = rx
              /\ UNCHANGED SchedState
        /\ ( /\ pc = "parse"
             /\ stalled = "yes"
             /\ rx # <<>>
             /\ rx[1] \in KnownMarkers
             /\ Len(rx) >= RefSize(rx[1])
             /\ ~EnvStep )
           => OnePieceEffect ]_vars

\* a PICK packet that an earlier pass saw incomplete has been consumed and
\* buffered with the target, angle and delay of its bytes
C9_Witness ==
    /\ stalled = "resumed"
    /\ pc = "parse"
    /\ commandCount = 1
    /\ commandBuffer[0].targetIndex = 3
    /\ commandBuffer[0].angle = 90
    /\ commandBuffer[0].relativeDelay = [hi |-> 0, lo |-> 1]
    /\ commandBuffer[0].id = nextId

\* C10: a front byte that is none of the six markers ends the dispatcher
\* pass at once: neither it nor any byte behind it is consumed, and buffer,
\* sync flag and baseline are unchanged.
C10_UnknownMarkerStops ==
    [][ ( /\ pc = "parse"
          /\ rx # <<>>
          /\ rx[1] \notin KnownMarkers
          /\ ~EnvStep )
        => /\ pc' = "update"
           /\ rx' = rx
           /\ UNCHANGED SchedState ]_vars

\* the pass has ended on a byte that is no marker, with a complete STOP
\* packet behind it and a command in the buffer
C10_Witness ==
    /\ pc = "update"
    /\ Len(rx) >= 2
    /\ rx[1] \notin KnownMarkers
    /\ rx[2] = 238
    /\ commandCount > 0

\* C11: a GET_TIME byte at the front of the stream is consumed alone, one
\* "TIME:" line carrying the clock value of that moment is printed, no
\* driver is called, and buffer, count, sync flag and baseline are unchanged.
C11_GetTimeReplies ==
    [][ ( /\ pc = "parse"
          /\ rx # <<>>
          /\ rx[1] = 204
          /\ ~EnvStep )
        => /\ rx' = Tail(rx)
           /\ out' = <<[text |-> "TIME:", value |-> millis]>>
           /\ millis' = millis
           /\ moves' = <<>>
           /\ pc' = "parse"
           /\ UNCHANGED SchedState ]_vars

\* a GET_TIME has just been answered with clock value 2 while scheduling is
\* active and a command is buffered
C11_Witness ==
    /\ pc = "parse"
    /\ out = <<[text |-> "TIME:", value |-> [hi |-> 0, lo |-> 2]]>>
    /\ millis = [hi |-> 0, lo |-> 2]
    /\ syncReceived
    /\ commandCount > 0

\* C12: scheduling is inactive initially; it becomes active only by a
\* dispatcher step on a complete SYNC packet with type byte 0x01; it is
\* inactive after a STOP and after a due END sentinel has fired.  A
\* scheduler pass that finds scheduling inactive returns at once: it calls
\* no driver and removes nothing, so the driver is only ever called, and an
\* entry only ever removed by the scheduler, in a pass that started with
\* scheduling active; between passes, while scheduling is inactive, a
\* buffered command leaves the buffer only by a SYNC or a STOP.
C12_OnlySyncActivates ==
    /\ ~syncReceived
    /\ [][ /\ (~syncReceived /\ syncReceived')
               => /\ pc = "parse"
                  /\ Len(rx) >= 6
                  /\ rx[1] = 170
                  /\ rx[2] = 1
           /\ (pc = "parse" /\ rx # <<>> /\ rx[1] = 238 /\ ~EnvStep)
               => ~syncReceived'
           /\ (pc = "scan" /\ ~EnvStep /\ out' = <<[text |-> "DONE", value |-> 0]>>)
               => ~syncReceived'
           /\ (pc = "update" /\ ~syncReceived /\ ~EnvStep)
               => /\ pc' = "parse"
                  /\ moves' = <<>>
                  /\ UNCHANGED SchedState
                  /\ UNCHANGED executed
           /\ (executed' # executed \/ (pc = "scan" /\ commandCount' < commandCount))
               => passSync
           /\ (pc # "scan" /\ ~syncReceived /\ ~(LiveIds \subseteq LiveIds'))
               => /\ pc = "parse"
                  /\ rx # <<>>
                  /\ rx[1] \in {170, 238} ]_vars

\* a scheduler pass is about to start with scheduling inactive while a PICK
\* whose due time has passed sits in the buffer
C12_Witness ==
    /\ pc = "update"
    /\ ~syncReceived
    /\ commandCount > 0
    /\ commandBuffer[0].pkt[1] = 187
    /\ commandBuffer[0].targetIndex # 255
    /\ executed[commandBuffer[0].id] = 0
    /\ TrueReached(millis, syncStartTime, commandBuffer[0].relativeDelay)

\* (base + delay) mod 2^32, from the sum over the naturals
RefSumMod32(base, delay) ==
    LET lo == base.lo + delay.lo
        hi == base.hi + delay.hi + (lo \div 65536)
    IN  [hi |-> hi % 65536, lo |-> lo % 65536]

\* t >= d on 32-bit unsigned values
RefReached(t, d) == t.hi > d.hi \/ (t.hi = d.hi /\ t.lo >= d.lo)

\* the entry c is due in the pass under way
DueNow(c) == RefReached(now, RefSumMod32(syncStartTime, c.relativeDelay))

\* C13: a scheduler step on entry i either finds it due, and then deletes
\* exactly that entry, keeps the others in their order and stays at index
\* i, where the next entry now sits, or finds it not due, and then leaves
\* the buffer alone and moves to i + 1.  When a pass that started with
\* scheduling active returns, the buffer is the subsequence of the entries
\* it started with that were not due at the pass's time, in their order.
C13_ScanKeepsOrder ==
    [][ /\ (pc = "scan" /\ i < commandCount /\ ~EnvStep)
            => IF DueNow(commandBuffer[i])
               THEN /\ Live' = [k \in 1..(commandCount - 1) |->
                                   IF k <= i THEN Live[k] ELSE Live[k + 1]]
                    /\ i' = i
                    /\ pc' = "scan"
               ELSE /\ Live' = Live
                    /\ i' = i + 1
                    /\ pc' = "scan"
        /\ PassEnds
            => LET Waits(c) == ~DueNow(c)
               IN  /\ passSync
                   /\ Live' = SelectSeq(passBuf, Waits) ]_vars

\* a pass over two entries has removed the first, which was due, has then
\* evaluated the second, which had shifted into its place and was not due,
\* and has reached the end of the buffer
C13_Witness ==
    /\ pc = "scan"
    /\ Len(passBuf) = 2
    /\ commandCount = 1
    /\ i = 1
    /\ commandBuffer[0] = passBuf[2]
    /\ DueNow(passBuf[1])
    /\ ~DueNow(passBuf[2])

\* C14: the count stays within 0..MAX_COMMANDS (capacity is the build's
\* MAX_COMMANDS, 1 in the source); the dispatcher writes the buffer only at
\* index commandCount < MAX_COMMANDS and the scheduler reads it only at a
\* scan index below the count; the count grows only by one, by a complete
\* PICK or END packet that finds room, and shrinks only by one in a
\* scheduler removal or to zero by a SYNC or a STOP.
C14_CountWithinCapacity ==
    /\ commandCount = 0
    /\ [][ /\ commandCount' \in 0..capacity'
           /\ capacity' = capacity
           /\ DOMAIN commandBuffer' = 0..(capacity - 1)
           /\ (pc' = "scan") => i' \in 0..commandCount'
           /\ (commandBuffer' # commandBuffer /\ pc = "parse")
               => /\ commandCount \in 0..(capacity - 1)
                  /\ \A k \in DOMAIN commandBuffer :
                        k # commandCount => commandBuffer'[k] = commandBuffer[k]
                  /\ commandCount' = commandCount + 1
           /\ (commandBuffer' # commandBuffer /\ pc # "parse")
               => /\ pc = "scan"
                  /\ i \in 0..(commandCount - 1)
                  /\ commandCount' = commandCount - 1
           /\ (commandCount' > commandCount)
               => /\ commandCount' = commandCount + 1
                  /\ commandCount < capacity
                  /\ pc = "parse"
                  /\ rx # <<>>
                  /\ rx[1] \in {187, 221}
                  /\ Len(rx) >= RefSize(rx[1])
           /\ (commandCount' < commandCount)
               => \/ /\ pc = "scan"
                     /\ i \in 0..(commandCount - 1)
                     /\ commandCount' = commandCount - 1
                  \/ /\ pc = "parse"
                     /\ rx # <<>>
                     /\ rx[1] = 238 \/ (rx[1] = 170 /\ Len(rx) >= 6)
                     /\ commandCount' = 0 ]_vars

\* the shipped configuration with its one slot taken, a further PICK having
\* just been refused
C14_Witness ==
    /\ capacity = MAX_COMMANDS
    /\ commandCount = capacity
    /\ pc = "parse"
    /\ out = <<[text |-> "ERROR: command buffer full", value |-> 0]>>

RECURSIVE Flat(_)
\* the bytes of the pieces still in flight
Flat(w) == IF w = <<>> THEN <<>> ELSE Head(w) \o Flat(Tail(w))

RECURSIVE Aligned(_)
\* s is a concatenation of whole packets the host sends
Aligned(s) ==
    \/ s = <<>>
    \/ \E p \in Packets :
          /\ Len(p) <= Len(s)
          /\ SubSeq(s, 1, Len(p)) = p
          /\ Aligned(Drop(s, Len(p)))

\* C15: a dispatcher step that consumes anything consumes the complete
\* packet at the front and exactly the bytes of its size (SYNC 6, PICK 7,
\* GET_TIME 1, END 5, STOP 1, RESET 37), also when a PICK or END is dropped
\* because the buffer is full; nothing else consumes bytes.  So, as long as
\* no SYNC with a wrong type byte has halted the system, the bytes left
\* after a consumption are a concatenation of whole packets: the front of
\* the stream is a packet boundary and never a payload byte.
C15_FramesBySize ==
    [][ /\ (rx' # rx /\ Len(rx') <= Len(rx))
            => /\ pc = "parse"
               /\ rx # <<>>
               /\ rx[1] \in KnownMarkers
               /\ Len(rx) >= RefSize(rx[1])
               /\ IF rx[1] = 170 /\ rx[2] # 1
                  THEN pc' = "halted"
                  ELSE rx' = Drop(rx, RefSize(rx[1]))
        /\ ( /\ pc = "parse"
             /\ commandCount = capacity
             /\ rx # <<>>
             /\ rx[1] \in {187, 221}
             /\ Len(rx) >= RefSize(rx[1])
             /\ ~EnvStep )
            => /\ rx' = Drop(rx, RefSize(rx[1]))
               /\ UNCHANGED SchedState
        /\ (Len(rx') > Len(rx))
            => /\ SubSeq(rx', 1, Len(rx)) = rx
               /\ UNCHANGED pc
        /\ (Len(rx') < Len(rx) /\ pc' # "halted")
            => Aligned(rx' \o Flat(wire')) ]_vars

\* a PICK has just been dropped on a full buffer and the STOP packet sent
\* behind it is now at the front of the stream
C15_Witness ==
    /\ pc = "parse"
    /\ out = <<[text |-> "ERROR: command buffer full", value |-> 0]>>
    /\ commandCount = capacity
    /\ rx = <<238>>

\* C16: within a cycle the dispatcher runs first and the scheduler once
\* after it.  The dispatcher pass ends without a fatal error only when no
\* byte is available, or the front byte is no marker, or the front byte is a
\* marker whose packet is not yet complete: while a complete packet is at
\* the front the dispatcher goes on (or halts).  The scheduler is entered
\* only from the end of a dispatcher pass and the dispatcher only from the
\* return of the scheduler, so a command that a STOP or a SYNC of the same
\* batch discards is never executed.
C16_DispatcherRunsOut ==
    [][ /\ (pc = "parse" /\ pc' # "parse")
            => \/ pc' = "halted"
               \/ /\ pc' = "update"
                  /\ rx' = rx
                  /\ \/ rx = <<>>
                     \/ rx[1] \notin KnownMarkers
                     \/ Len(rx) < RefSize(rx[1])
        /\ (pc = "update") => pc' \in {"update", "scan", "parse"}
        /\ (pc = "update" /\ pc' = "parse") => ~syncReceived
        /\ (pc = "scan") => pc' \in {"scan", "parse"}
        /\ (pc # "parse" /\ pc' = "parse") => UNCHANGED rx
        /\ (pc # "parse") => UNCHANGED <<syncStartTime, discarded>>
        /\ \A id \in discarded'.stop \cup discarded'.sync :
              executed'[id] = 0 ]_vars

\* a dispatcher pass has just run out of bytes after a STOP that discarded
\* a PICK whose due time has been reached and that was never executed
C16_Witness ==
    /\ pc = "update"
    /\ rx = <<>>
    /\ commandCount = 0
    /\ ~syncReceived
    /\ commandBuffer[0].id \in discarded.stop
    /\ commandBuffer[0].pkt = PickA
    /\ syncStartTime = [hi |-> 0, lo |-> 1]
    /\ millis = [hi |-> 0, lo |-> 2]
    /\ executed[commandBuffer[0].id] = 0

\* C17: every handle() call returns unless a SYNC with a wrong type byte
\* halts it.  A dispatcher iteration consumes at least one byte or leaves
\* the loop; a scheduler iteration removes one entry, or advances the scan
\* index, or leaves the loop; so the dispatcher pass always ends (in the
\* scheduler or in the halt) and the scheduler pass always returns.
C17_HandleTerminates ==
    /\ [][ /\ (pc = "parse" /\ ~EnvStep)
               => \/ pc' = "parse" /\ Len(rx') < Len(rx)
                  \/ pc' = "update" /\ rx' = rx
                  \/ pc' = "halted" /\ rx[1] = 170 /\ rx[2] # 1
           /\ (pc = "scan" /\ ~EnvStep)
               => \/ /\ pc' = "scan"
                     /\ commandCount' = commandCount - 1
                     /\ i' = i
                  \/ /\ pc' = "scan"
                     /\ commandCount' = commandCount
                     /\ i' = i + 1
                     /\ i' <= commandCount
                  \/ pc' = "parse" ]_vars
    /\ (pc = "parse") ~> (pc \in {"update", "halted"})
    /\ (pc \in {"update", "scan"}) ~> (pc = "parse")

\* a scheduler pass over two entries is at the end of the buffer, having
\* stepped over the first entry and removed the second
C17_Witness ==
    /\ pc = "scan"
    /\ ~(i < commandCount)
    /\ Len(passBuf) = 2
    /\ commandCount = 1
    /\ commandBuffer[0] = passBuf[1]
    /\ executed[passBuf[2].id] = 1

\* C18: the values decoded from the wire are those of the protocol's byte
\* orders (32-bit values as their two 16-bit halves): a buffered PICK holds
\* the target and angle bytes and the little-endian value of the four delay
\* bytes; a buffered END holds target 255, angle 0 and the little-endian
\* value of its four delay bytes; a SYNC sets the baseline to the big-endian
\* value of its four time bytes; each RESET call carries the signed 16-bit
\* value of hi * 256 + lo.
C18_DecodesByteOrders ==
    [][ /\ ( /\ pc = "parse"
             /\ Len(rx) >= 7
             /\ rx[1] = 187
             /\ commandCount < capacity
             /\ ~EnvStep )
            => /\ commandBuffer'[commandCount].targetIndex = rx[2]
               /\ commandBuffer'[commandCount].angle = rx[3]
               /\ commandBuffer'[commandCount].relativeDelay =
                     RefLittleEndian32(rx[4], rx[5], rx[6], rx[7])
        /\ ( /\ pc = "parse"
             /\ Len(rx) >= 5
             /\ rx[1] = 221
             /\ commandCount < capacity
             /\ ~EnvStep )
            => /\ commandBuffer'[commandCount].targetIndex = 255
               /\ commandBuffer'[commandCount].angle = 0
               /\ commandBuffer'[commandCount].relativeDelay =
                     RefLittleEndian32(rx[2], rx[3], rx[4], rx[5])
        /\ ( /\ pc = "parse"
             /\ Len(rx) >= 6
             /\ rx[1] = 170
             /\ rx[2] = 1
             /\ ~EnvStep )
            => syncStartTime' = RefBigEndian32(rx[3], rx[4], rx[5], rx[6])
        /\ ( /\ pc = "parse"
             /\ Len(rx) >= 37
             /\ rx[1] = 239
             /\ ~EnvStep )
            => \A k \in 1..18 :
                  moves'[k].angle = RefSigned16(rx[2 * k], rx[2 * k + 1]) ]_vars

\* after a SYNC with baseline 1, an END with delay bytes 01 00 00 00 has
\* just been buffered as the sentinel with delay 1
C18_Witness ==
    /\ pc = "parse"
    /\ syncReceived
    /\ syncStartTime = [hi |-> 0, lo |-> 1]
    /\ commandCount > 0
    /\ commandBuffer[commandCount - 1].pkt = <<221, 1, 0, 0, 0>>
    /\ commandBuffer[commandCount - 1].targetIndex = 255
    /\ commandBuffer[commandCount - 1].relativeDelay = [hi |-> 0, lo |-> 1]
    /\ commandBuffer[commandCount - 1].id = nextId
    /\ moves = <<>>
    /\ out = <<>>

\* a byte that is none of the six markers is at the front of the stream
Blocked == rx # <<>> /\ rx[1] \notin KnownMarkers

\* C19: once a byte that is no marker is at the front of the stream it
\* stays there for ever: no step consumes anything, whatever arrives behind
\* it; the dispatcher changes neither buffer, count, sync flag nor baseline
\* and never halts; the only changes left are those of the scheduler, which
\* keeps executing and removing the commands buffered before.
C19_HeadOfLineBlocks ==
    [][ Blocked
        => /\ Blocked'
           /\ Len(rx') >= Len(rx)
           /\ SubSeq(rx', 1, Len(rx)) = rx
           /\ pc' # "halted" \/ pc = "halted"
           /\ (pc # "scan") => UNCHANGED SchedState
           /\ (pc = "scan")
               => /\ commandCount' <= commandCount
                  /\ syncStartTime' = syncStartTime
                  /\ syncReceived' => syncReceived
           /\ (pc = "parse" /\ ~EnvStep) => pc' = "update"
           /\ UNCHANGED <<nextId, discarded>> ]_vars

\* the scheduler has just executed a buffered command while a byte that is
\* no marker blocks the front of the stream
C19_Witness ==
    /\ Blocked
    /\ pc = "scan"
    /\ moves # <<>>
    /\ syncReceived

\* base + delay, taken over the naturals, is 2^32 or more
RefOverflows(base, delay) ==
    base.hi + delay.hi + ((base.lo + delay.lo) \div 65536) >= 65536

\* C20: the scheduler removes (fires) the entry under the scan index
\* exactly if now >= (baseline + relativeDelay) mod 2^32.  When the true
\* sum is below 2^32 that is exactly if now has reached the true sum; when
\* the true sum is 2^32 or more, the entry fires as soon as now has reached
\* the wrapped value, that is before baseline + relativeDelay is reached.
C20_DueTimeWraps ==
    [][ (pc = "scan" /\ i < commandCount /\ ~EnvStep)
        => LET delay == commandBuffer[i].relativeDelay
               fires == commandCount' = commandCount - 1
           IN  /\ fires <=>
                     RefReached(now, RefSumMod32(syncStartTime, delay))
               /\ ~RefOverflows(syncStartTime, delay)
                   => (fires <=> TrueReached(now, syncStartTime, delay))
               /\ ( /\ RefOverflows(syncStartTime, delay)
                    /\ RefReached(now, RefSumMod32(syncStartTime, delay)) )
                   => /\ fires
                      /\ ~TrueReached(now, syncStartTime, delay)
               /\ ~fires => (i' = i + 1 /\ commandCount' = commandCount) ]_vars

\* the driver has just been called for a PICK whose true due time, baseline
\* 1 plus delay 2^32 - 1, lies beyond the 32-bit range and has not been
\* reached
C20_Witness ==
    /\ pc = "scan"
    /\ Len(moves) = 1
    /\ \E c \in Range(passBuf) :
          /\ c.id = moves[1].id
          /\ c.relativeDelay = [hi |-> 65535, lo |-> 65535]
          /\ RefOverflows(syncStartTime, c.relativeDelay)
          /\ RefSumMod32(syncStartTime, c.relativeDelay) = [hi |-> 0, lo |-> 0]
          /\ executed[c.id] = 1

====
